---- MODULE Spec2Model ----
(***************************************************************************)
(* The recursive extraction engine of src/extractor.py: the driver         *)
(* (Extractor.extract), the per-file state machine (ExtractionItem.extract *)
(* and its six cascade stages), the shared visited set and its lock, the   *)
(* output directory and the temporary directories.                         *)
(*                                                                         *)
(* A file is identified by its content: two paths with the same bytes have *)
(* the same checksum (io_md5).  The signature scanner (runBinwalk) is      *)
(* deterministic: what it reports for a file is a function of the file and *)
(* of the signature family asked for.  The files the model runs on are a   *)
(* small catalogue of firmware shapes, defined below.                      *)
(***************************************************************************)
EXTENDS Integers, Sequences, FiniteSets, TLC

VARIABLES cfg, run, ctx, lock, outfiles, temps, stack, tstate, results, prev, hist

vars == <<cfg, run, ctx, lock, outfiles, temps, stack, tstate, results, prev, hist>>

\* ExtractionItem.RECURSION_BREADTH and RECURSION_DEPTH
RECURSION_BREADTH == 5
RECURSION_DEPTH == 3

\* Bounds of the model
MaxInputs == 2
NestMax == 5
WideMax == 7
MultiMax == 3

-----------------------------------------------------------------------------
(* The catalogue of files.  A file id is <<kind, n>>.                      *)

Kernel == <<"kernel", 0>>      \* a Linux kernel image
VxKernel == <<"kernel", 1>>    \* a VxWorks kernel image
LateKernel == <<"kernel", 2>>  \* a file whose second kernel artifact is a Linux kernel
BadTrx == <<"badhdr", 0>>      \* a TRX image with a non-hex "kernel offset:" in its first header
BadUImage == <<"badhdr", 1>>   \* a uImage with no digits after "image size:" in its first header
Rootfs == <<"rootfs", 0>>      \* a filesystem image holding a UNIX tree
DataFs == <<"rootfs", 1>>      \* a filesystem image without a UNIX tree
Text == <<"text", 0>>          \* a text file (blacklisted by MIME type)
Plain == <<"plain", 0>>        \* opaque data: no signature matches
Shrs == <<"shrs", 0>>          \* a D-Link SHRS encrypted image
Gz == <<"gz", 0>>              \* compressed data unpacking to a UNIX tree
Firmware == <<"fw", 0>>        \* an archive of a kernel and a filesystem image
Outer == <<"outer", 0>>        \* an archive of a wide archive and a kernel
Trx == <<"trx", 0>>            \* a TRX image: header, kernel range, rootfs range
UImage == <<"uimage", 0>>      \* a uImage: 64-byte header, then a kernel
Nest(n) == <<"nest", n>>       \* n archives around a kernel image
Wide(n) == <<"wide", n>>       \* an archive of n text files in one directory
Multi(n) == <<"multi", n>>     \* an archive of two directories, 4 and n text files
Boom(s) == <<"boom", s>>       \* a file on which the scan of stage s fails
Pack == <<"pack", 0>>          \* an archive of a TRX image
KernelPack == <<"kpack", 0>>   \* a Linux kernel image with an archive of a kernel image in it
GzRootfs == <<"gzfs", 0>>      \* a file both the rootfs and the compressed scan extract a UNIX tree from
FsImage(k) == <<"fsimg", k>>   \* a filesystem image that extracts into directory layout k
Dangling == <<"dangling", 0>>  \* a symbolic link whose target does not exist
Linked == <<"linked", 0>>      \* an archive of a dangling link and a kernel
TrxNoLen(k) == <<"trx0", k>>   \* a TRX image whose header gives offsets only, kernel at k

\* A file of 832 bytes with a TP-Link/TRX header that declares the four
\* fields; bytes [64, 320) are a kernel and [320, 832) a filesystem image.
TrxHdr(koff, klen, roff, rlen) == <<"trxh", koff, klen, roff, rlen>>

\* A file of 164 bytes in which a uImage header is found at `offset` and
\* declares `imgsize`; bytes [64, 164) are a kernel.
UImageHdr(offset, imgsize) == <<"uimgh", offset, imgsize>>

\* A directory entry of an extracted tree: a file name and the file's content.
\* A name is a sequence of character codes.
Ref(n, f) == [name |-> n, file |-> f]

NoScan == [raise |-> FALSE, entries |-> <<>>]
ScanFails == [raise |-> TRUE, entries |-> <<>>]

\* One successfully extracted artifact whose output directory is `tree`, a
\* sequence of directories in os.walk order, each a set of Ref.  `unix` is
\* what io_find_rootfs answers for the output directory; `orig` is the name
\* after "original file name:" in the description (<<>> when absent).
Extracted(tree, unix, orig) ==
    [ext |-> "ok", unix |-> unix, tree |-> tree, orig |-> orig]
NotExtracted == [ext |-> "none", unix |-> FALSE, tree |-> <<>>, orig |-> <<>>]
FailedExtraction == [ext |-> "fail", unix |-> FALSE, tree |-> <<>>, orig |-> <<>>]

\* Extractor.UNIX_DIRS and Extractor.UNIX_THRESHOLD
UNIX_DIRS == {"bin", "etc", "dev", "home", "lib", "mnt", "opt", "root",
              "run", "sbin", "tmp", "usr", "var"}
UNIX_THRESHOLD == 4

\* A directory is the set of its entries; an entry is a regular file or a
\* directory with its own entries.  A path is the sequence of names below
\* the directory io_find_rootfs is first called on.
File(n) == [name |-> n, dir |-> FALSE, sub |-> {}]
Dir(n, sub) == [name |-> n, dir |-> TRUE, sub |-> sub]

UnixFour == {Dir("bin", {}), Dir("etc", {}), Dir("lib", {}), Dir("usr", {})}

\* The directory layouts the filesystem images extract into
LayoutIds == 1..10
Layout(k) ==
    CASE k = 1 -> UnixFour
      [] k = 2 -> {Dir("fs_1", {Dir("sq", UnixFour)})}
      [] k = 3 -> {File("README"), Dir("a", UnixFour)}
      [] k = 4 -> {File("x"), Dir("a", {Dir("b", UnixFour)})}
      [] k = 5 -> {File("x"), Dir("a", {Dir("p", UnixFour), Dir("q", {})})}
      [] k = 6 -> {Dir("w", {File("bin"), File("etc"), File("lib"), File("usr")})}
      [] k = 7 -> {Dir("a", UnixFour), Dir("b", UnixFour)}
      [] k = 8 -> {Dir("p", {}), Dir("q", {}), Dir("r", {}), Dir("s", {})}
      [] k = 9 -> {Dir("bin", {}), Dir("etc", {}), Dir("lib", {}), File("usr")}
      [] OTHER -> {File("f"), Dir("a", {File("g"), Dir("b", UnixFour)})}

\* os.listdir(path)
RECURSIVE ListDir(_, _)
ListDir(root, path) ==
    IF path = <<>> THEN root
    ELSE ListDir((CHOOSE e \in root : e.name = Head(path)).sub, Tail(path))

\* Variant: every subdirectory counts, whatever its name
UnixCountAnyName(root, path) ==
    Cardinality({e \in ListDir(root, path) : e.dir})

\* io_find_rootfs, lines 163-168: the number of entries of path that are
\* directories named in UNIX_DIRS
UnixCount(root, path) ==
    Cardinality({e \in ListDir(root, path) : e.name \in UNIX_DIRS /\ e.dir})

\* io_find_rootfs, lines 157-161: the while loop over single directory chains
RECURSIVE SingleChain(_, _)
SingleChain(root, path) ==
    LET ls == ListDir(root, path)
    IN IF Cardinality(ls) = 1 /\ (CHOOSE e \in ls : TRUE).dir
       THEN SingleChain(root, Append(path, (CHOOSE e \in ls : TRUE).name))
       ELSE path

\* Extractor.io_find_rootfs(start, recurse): the results it can return; the
\* order of os.listdir decides which of several qualifying subdirectories is
\* returned.
RECURSIVE IoFindRootfs(_, _, _)
IoFindRootfs(root, start, recurse) ==
    LET path == SingleChain(root, start)
        hits == UNION {{r \in IoFindRootfs(root, Append(path, e.name), FALSE) : r[1]} :
                         e \in {d \in ListDir(root, path) : d.dir}}
    IN IF UnixCount(root, path) >= UNIX_THRESHOLD THEN {<<TRUE, path>>}
       ELSE IF recurse /\ hits # {} THEN hits
       ELSE {<<FALSE, start>>}

\* runBinwalk(item, extract=True, includeSignatures=archiveSignatures)
ArchiveScan(f) ==
    CASE f[1] = "nest" /\ f[2] >= 1 ->
           [raise |-> FALSE, entries |->
              <<Extracted(<<{Ref(<<1>>, IF f[2] = 1 THEN Kernel ELSE Nest(f[2] - 1))}>>,
                          FALSE, <<>>)>>]
      [] f[1] = "wide" ->
           [raise |-> FALSE, entries |->
              <<Extracted(<<{Ref(<<i>>, Text) : i \in 1..f[2]}>>, FALSE, <<>>)>>]
      [] f[1] = "multi" ->
           [raise |-> FALSE, entries |->
              <<NotExtracted,
                Extracted(<<{Ref(<<i>>, Text) : i \in 1..4},
                            {Ref(<<i>>, Text) : i \in 1..f[2]}>>, FALSE, <<>>)>>]
      [] f = Firmware ->
           [raise |-> FALSE, entries |->
              <<FailedExtraction,
                Extracted(<<{Ref(<<1, 1>>, Kernel), Ref(<<2>>, Rootfs), Ref(<<1>>, Text)}>>,
                          FALSE, <<1, 1>>)>>]
      [] f = Outer ->
           [raise |-> FALSE, entries |->
              <<Extracted(<<{Ref(<<1>>, Wide(WideMax)), Ref(<<1, 1>>, Kernel)}>>,
                          FALSE, <<>>)>>]
      [] f = Pack ->
           [raise |-> FALSE, entries |-> <<Extracted(<<{Ref(<<1>>, Trx)}>>, FALSE, <<>>)>>]
      [] f = KernelPack ->
           [raise |-> FALSE, entries |-> <<Extracted(<<{Ref(<<1>>, Kernel)}>>, FALSE, <<>>)>>]
      [] f = Linked ->
           [raise |-> FALSE, entries |->
              <<Extracted(<<{Ref(<<1>>, Dangling), Ref(<<1, 1>>, Kernel)}>>, FALSE, <<>>)>>]
      [] f = Boom(1) -> ScanFails
      [] OTHER -> NoScan

\* runBinwalk(item, extract=True, includeSignatures=compressedSignatures)
CompressedScan(f) ==
    CASE f \in {Gz, GzRootfs} -> [raise |-> FALSE, entries |-> <<Extracted(<<{}>>, TRUE, <<>>)>>]
      [] f = Boom(6) -> ScanFails
      [] OTHER -> NoScan

\* runBinwalk(item, extract=True, includeSignatures=ubiSignatures + rootfsSignatures)
RootfsScan(f) ==
    CASE f = Rootfs -> [raise |-> FALSE, entries |->
                          <<NotExtracted, Extracted(<<{}>>, TRUE, <<>>)>>]
      [] f = GzRootfs -> [raise |-> FALSE, entries |-> <<Extracted(<<{}>>, TRUE, <<>>)>>]
      [] f = DataFs -> [raise |-> FALSE, entries |->
                          <<Extracted(<<{Ref(<<1>>, Text)}>>, FALSE, <<>>),
                            Extracted(<<{}>>, TRUE, <<>>)>>]
      [] f[1] = "fsimg" -> [raise |-> FALSE, entries |->
                          <<Extracted(<<{}>>,
                                      \E r \in IoFindRootfs(Layout(f[2]), <<>>, TRUE) : r[1],
                                      <<>>)>>]
      [] f = Boom(5) -> ScanFails
      [] OTHER -> NoScan

\* runBinwalk(item, includeSignatures=kernelSignatures): of each artifact,
\* whether its description holds "kernel version" or "Linux version", and
\* whether it holds "Linux".
KernelScan(f) ==
    CASE f \in {Kernel, KernelPack} ->
           [raise |-> FALSE, entries |-> <<[kver |-> TRUE, linux |-> TRUE]>>]
      [] f = VxKernel -> [raise |-> FALSE, entries |-> <<[kver |-> TRUE, linux |-> FALSE]>>]
      [] f = LateKernel -> [raise |-> FALSE, entries |->
                              <<[kver |-> FALSE, linux |-> FALSE], [kver |-> TRUE, linux |-> TRUE]>>]
      [] f = Boom(4) -> ScanFails
      [] OTHER -> NoScan

\* os.path.getsize(item)
Size(f) ==
    CASE f = Trx \/ f[1] = "trx0" \/ f[1] = "trxh" \/ f = BadTrx -> 832
      [] f = UImage \/ f[1] = "uimgh" \/ f = BadUImage -> 164
      [] OTHER -> 100

\* runBinwalk(item, includeSignatures=headerSignatures): of each artifact, the
\* fields _check_firmware reads from the description.
HeaderEntry(kind, oskernel, offset, imgsize, koff, klen, roff, rlen) ==
    [kind |-> kind, oskernel |-> oskernel, offset |-> offset, imgsize |-> imgsize,
     koff |-> koff, klen |-> klen, roff |-> roff, rlen |-> rlen]

HeaderScan(f) ==
    CASE f = Trx -> [raise |-> FALSE, entries |->
                       <<HeaderEntry("other", FALSE, 0, 0, 0, 0, 0, 0),
                         HeaderEntry("trx", FALSE, 0, 0, 64, 256, 320, 512)>>]
      [] f[1] = "trx0" -> [raise |-> FALSE, entries |->
                       <<HeaderEntry("trx", FALSE, 0, 0, f[2], 0, 320, 0)>>]
      [] f[1] = "trxh" -> [raise |-> FALSE, entries |->
                       <<HeaderEntry("trx", FALSE, 0, 0, f[2], f[3], f[4], f[5])>>]
      [] f[1] = "uimgh" -> [raise |-> FALSE, entries |->
                       <<HeaderEntry("uimage", TRUE, f[2], f[3], 0, 0, 0, 0)>>]
      [] f = UImage -> [raise |-> FALSE, entries |->
                       <<HeaderEntry("uimage", TRUE, 0, 100, 0, 0, 0, 0)>>]
      [] f = BadTrx -> [raise |-> FALSE, entries |->
                       <<HeaderEntry("trxbad", FALSE, 0, 0, 0, 0, 0, 0),
                         HeaderEntry("trx", FALSE, 0, 0, 64, 256, 320, 512)>>]
      [] f = BadUImage -> [raise |-> FALSE, entries |->
                       <<HeaderEntry("uimagebad", TRUE, 0, 0, 0, 0, 0, 0),
                         HeaderEntry("uimage", TRUE, 0, 100, 0, 0, 0, 0)>>]
      [] f = Boom(3) -> ScanFails
      [] OTHER -> NoScan

\* The artifacts of a header scan whose description fields parse.
WellFormed(entries) == SelectSeq(entries, LAMBDA e : e.kind \notin {"trxbad", "uimagebad"})

\* The content io_dd writes: the bytes [offset, offset+size) of file f.
CarveContent(f, offset, size) ==
    CASE offset = 0 /\ size = Size(f) -> f
      [] f \in {Trx, BadTrx} /\ offset = 64 /\ size = 256 -> Kernel
      [] f \in {Trx, BadTrx} /\ offset = 320 /\ size = 512 -> Rootfs
      [] f = BadUImage /\ offset = 64 /\ size = 100 -> Kernel
      [] f[1] = "trx0" /\ offset = 64 /\ size = 256 -> Kernel
      [] f[1] = "trx0" /\ offset = 320 /\ size = 512 -> Rootfs
      [] f = UImage /\ offset = 64 /\ size = 100 -> Kernel
      [] f[1] = "trxh" /\ offset = 64 /\ size = 256 -> Kernel
      [] f[1] = "trxh" /\ offset = 320 /\ size = 512 -> Rootfs
      [] f[1] = "uimgh" /\ offset = 64 /\ size = 100 -> Kernel
      [] OTHER -> Plain

\* Variant: no file type is excluded
BlacklistedNone(f) == FALSE

\* _check_blacklist: the MIME type, the magic description or the suffix
\* excludes the file.
Blacklisted(f) == f = Text

\* ExtractionItem.__init__: io_md5 calls os.stat(path), which raises for a
\* link without a target.
ConstructionRaises(f) == f = Dangling

\* _check_encryption: the first four bytes are "SHRS".
HasShrsHeader(f) == f = Shrs

-----------------------------------------------------------------------------
(* Carving primitives and the item's status                                *)

\* files.sort(); files.sort(key=len): by length, then lexicographically.
RECURSIVE LexLess(_, _)
LexLess(a, b) ==
    IF a = <<>> THEN b # <<>>
    ELSE IF b = <<>> THEN FALSE
    ELSE IF Head(a) # Head(b) THEN Head(a) < Head(b)
    ELSE LexLess(Tail(a), Tail(b))

NameBefore(a, b) == Len(a) < Len(b) \/ (Len(a) = Len(b) /\ LexLess(a, b))

SortFiles(dir) ==
    [i \in 1..Cardinality(dir) |->
       CHOOSE x \in dir :
         Cardinality({y \in dir : NameBefore(y.name, x.name)}) = i - 1]

\* The order in which _check_recursive visits the files of one directory:
\* sorted, with the restored original file name moved to the front.
VisitOrder(dir, orig) ==
    LET sorted == SortFiles(dir)
        hit == {i \in 1..Len(sorted) : sorted[i].name = orig}
    IN IF orig # <<>> /\ hit # {}
       THEN LET i == CHOOSE j \in hit : TRUE
            IN <<sorted[i]>> \o SubSeq(sorted, 1, i - 1) \o SubSeq(sorted, i + 1, Len(sorted))
       ELSE sorted

\* ExtractionItem.generate_tag without a database: basename + "_" + checksum
GenerateTag(name, f) == <<name, f>>

\* get_kernel_path / get_rootfs_path: <output_dir>/<tag>.kernel, <tag>.tar.gz
KernelPath(tag) == <<tag, "kernel">>
RootfsPath(tag) == <<tag, "tar.gz">>

\* ExtractionItem.update_status: the new status pair, from the extractor's
\* flags c and the files of the output directory.
UpdateStatus(tag, c, files) ==
    <<IF c.do_kernel /\ cfg.outdir THEN KernelPath(tag) \in files ELSE ~c.do_kernel,
      IF c.do_rootfs /\ cfg.outdir THEN RootfsPath(tag) \in files ELSE ~c.do_rootfs>>

\* Variant: early termination does not count as a reason to stop
GetStatusIgnoringTerminate(fr) == fr.status[1] /\ fr.status[2]

\* Variant: an item never counts as complete
GetStatusNever(fr) == FALSE

\* ExtractionItem.get_status
GetStatus(fr) == fr.terminate \/ (fr.status[1] /\ fr.status[2])

\* The dictionary extract() returns
Result(fr, st) ==
    [status |-> st, tag |-> fr.tag, kernelDone |-> fr.status[1], rootfsDone |-> fr.status[2]]

NoResult == [status |-> FALSE, tag |-> <<>>, kernelDone |-> FALSE, rootfsDone |-> FALSE]

\* Variant: a child is constructed without its parent's tag
ChildTagOmitted(parent) == <<>>

\* Variant: a carved child is constructed one level deeper
CarvedChildDeeper(parent) == parent.depth + 1

\* The tag and the depth a child item is constructed with
ChildTag(parent) == parent.tag
RecursiveChildDepth(parent) == parent.depth + 1
CarvedChildDepth(parent) == parent.depth

\* ExtractionItem.__init__: `via` records which statement constructed the item.
NewItem(f, name, depth, tag, c, files, via) ==
    LET tg == IF tag # <<>> THEN tag ELSE GenerateTag(name, f)
        st == UpdateStatus(tg, c, files)
    IN [file |-> f, name |-> name, depth |-> depth, tag |-> tg, via |-> via,
        temp |-> FALSE, terminate |-> FALSE, status |-> st, entry |-> st,
        pc |-> "new", stage |-> 0, ei |-> 1, di |-> 1, fi |-> 1, count |-> 0,
        held |-> 0, nchild |-> 0, skipped |-> FALSE, res |-> NoResult]

\* The Extractor object an item of task t works on: the driver's own object
\* when serial; with the pool, the copy unpickled with the task.
Proc(t) == IF cfg.pool THEN t ELSE 0

Tasks == 1..Len(cfg.inputs)
Top(t) == stack[t][Len(stack[t])]
SetTop(t, fr) == [stack EXCEPT ![t] = [@ EXCEPT ![Len(@)] = fr]]
Push(t, parent, child) == [stack EXCEPT ![t] = Append([@ EXCEPT ![Len(@)] = parent], child)]
Running(t) == tstate[t] = "running" /\ stack[t] # <<>>

\* A bag of checksums, as a function from the checksums it holds to counts
BagAdd(b, x) == IF x \in DOMAIN b THEN [b EXCEPT ![x] = @ + 1] ELSE b @@ (x :> 1)

\* Variant: the loop goes on to the next stage although the item is complete
AfterStageNoReturn(fr, result, c, files) ==
    LET st == IF result THEN UpdateStatus(fr.tag, c, files) ELSE fr.status
        f2 == [fr EXCEPT !.status = st, !.held = 0]
    IN IF fr.stage = 6 THEN [f2 EXCEPT !.pc = "ret", !.res = Result(f2, result /\ GetStatus(f2))]
       ELSE [f2 EXCEPT !.pc = "stage", !.stage = @ + 1, !.ei = 1, !.di = 1, !.fi = 1,
                       !.count = 0, !.nchild = 0]

\* The loop of extract() after analysis() returned `result`: the stage's
\* locals are released, the status is re-evaluated after a true result, and
\* the item returns when complete or after the last stage.
AfterStage(fr, result, c, files) ==
    LET st == IF result THEN UpdateStatus(fr.tag, c, files) ELSE fr.status
        f2 == [fr EXCEPT !.status = st, !.held = 0]
    IN IF result /\ GetStatus(f2) THEN [f2 EXCEPT !.pc = "ret", !.res = Result(f2, TRUE)]
       ELSE IF fr.stage = 6 THEN [f2 EXCEPT !.pc = "ret", !.res = Result(f2, FALSE)]
       ELSE [f2 EXCEPT !.pc = "stage", !.stage = @ + 1, !.ei = 1, !.di = 1, !.fi = 1,
                       !.count = 0, !.nchild = 0]

\* except Exception in extract(): the stage's locals are released and the
\* item returns status False with the flags it holds.
Caught(fr) ==
    [fr EXCEPT !.pc = "ret", !.res = Result(fr, FALSE), !.held = 0]

\* runBinwalk raises RuntimeError (container error, missing image, missing or
\* unparseable log): the log directory generateDockerArgs made with mkdtemp
\* is still there, shutil.rmtree(logDir) being after every raise.
RunBinwalkRaised(h) == [h EXCEPT !.raised = TRUE, !.logDirs = @ + 1]

\* Variant: the child items a stage referenced are never deleted
ReleaseNothing(t, fr) == temps

\* The temporary directories of task t after the top item's stage released
\* its locals (the child items it still referenced are deleted).
ReleaseHeld(t, fr) == [temps EXCEPT ![t] = @ - fr.held]

-----------------------------------------------------------------------------
(* The inputs of a run                                                     *)

TopFiles ==
    {Kernel, VxKernel, LateKernel, Rootfs, DataFs, Text, Plain, Shrs, Gz, Firmware, Outer, Trx, UImage, Pack,
     BadTrx, BadUImage, KernelPack, GzRootfs, Linked, TrxNoLen(0), TrxNoLen(64)}
    \cup {FsImage(k) : k \in LayoutIds}
    \cup {TrxHdr(a, b, c, d) : a \in {0, 64}, b \in {0, 256, 832}, c \in {0, 320, 900},
                               d \in {0, 512, 600}}
    \cup {UImageHdr(a, b) : a \in {0, 100}, b \in {0, 100, 200}}
    \cup {Nest(n) : n \in 1..NestMax}
    \cup {Wide(n) : n \in (WideMax - 2)..WideMax}
    \cup {Multi(n) : n \in 1..MultiMax}
    \cup {Boom(s) : s \in {1, 3, 4, 5, 6}}

\* Files of runs with several top-level inputs, and the base names they have
SmallFiles == {Kernel, Text, Nest(1)}
TopNames == {<<1>>, <<2>>}

\* The entries os.walk lists under an input directory: regular files, and
\* links whatever they point to.
DirRefs == {Ref(nm, f) : nm \in TopNames, f \in SmallFiles} \cup {Ref(<<1>>, Dangling)}

\* Extractor.extract, lines 191-198: the list of top-level paths.  A single
\* file, or the files found under a directory: paths differ, base names and
\* contents may coincide.
InputLists ==
    {<<Ref(<<1>>, f)>> : f \in TopFiles}
    \cup UNION {[1..n -> DirRefs] : n \in 2..MaxInputs}

\* Extractor.__init__: the flags and the empty visited set
NewExtractor == [visited |-> {}, do_kernel |-> cfg.kernel, do_rootfs |-> cfg.rootfs]

NoHist == [ran |-> <<>>, raised |-> FALSE, terminated |-> FALSE, carved |-> {}, writes |-> <<>>,
           logDirs |-> 0, found |-> {}]

Init ==
    /\ cfg \in [pool : BOOLEAN, outdir : BOOLEAN, kernel : BOOLEAN, rootfs : BOOLEAN,
                inputs : InputLists]
    /\ run = 1
    /\ ctx = [p \in 0..Len(cfg.inputs) |-> NewExtractor]
    /\ lock = 0
    /\ outfiles = {}
    /\ temps = [t \in Tasks |-> 0]
    /\ stack = [t \in Tasks |-> <<>>]
    /\ tstate = [t \in Tasks |-> "queued"]
    /\ results = [t \in Tasks |-> NoResult]
    /\ prev = [t \in Tasks |-> NoResult]
    /\ hist = NoHist

-----------------------------------------------------------------------------
(* The driver                                                              *)

\* Extractor._extract_item on the next path of the list: in order and one at
\* a time when serial; by any free worker of the pool otherwise, on its own
\* unpickled copy of the Extractor.
\* An exception raised by the constructor is not caught in _extract_item
\* nor in Extractor.extract: the task ends "raised", and so does the driver
\* (the serial loop at once, Pool.map once its tasks are over).
TaskStart(t) ==
    /\ tstate[t] = "queued"
    /\ \A u \in Tasks : u < t => tstate[u] # "queued"
    /\ ~cfg.pool => \A u \in Tasks : u < t => tstate[u] = "done"
    /\ LET c == IF cfg.pool THEN NewExtractor ELSE ctx[0]
           in == cfg.inputs[t]
       IN /\ ctx' = [ctx EXCEPT ![Proc(t)] = c]
          /\ IF ConstructionRaises(in.file)
             THEN /\ stack' = stack
                  /\ tstate' = [tstate EXCEPT ![t] = "raised"]
                  /\ hist' = [hist EXCEPT !.raised = TRUE]
             ELSE /\ stack' = [stack EXCEPT ![t] =
                                <<NewItem(in.file, in.name, 0, <<>>, c, outfiles, "top")>>]
                  /\ tstate' = [tstate EXCEPT ![t] = "running"]
                  /\ hist' = hist
    /\ UNCHANGED <<cfg, run, lock, outfiles, temps, results, prev>>

\* _extract_item returns: the result joins the list and the item is deleted
\* (__del__ removes its temporary directory).
TaskDone(t) ==
    /\ Running(t)
    /\ Len(stack[t]) = 1
    /\ Top(t).pc = "ret"
    /\ results' = [results EXCEPT ![t] = Top(t).res]
    /\ temps' = [temps EXCEPT ![t] = @ - (IF Top(t).temp THEN 1 ELSE 0)]
    /\ stack' = [stack EXCEPT ![t] = <<>>]
    /\ tstate' = [tstate EXCEPT ![t] = "done"]
    /\ UNCHANGED <<cfg, run, ctx, lock, outfiles, prev, hist>>

AllDone == \A t \in Tasks : tstate[t] = "done"

\* The driver is invoked a second time on the same input and output
\* directory: a new Extractor, the output directory as the first run left it.
SecondRun ==
    /\ AllDone
    /\ run = 1
    /\ run' = 2
    /\ prev' = results
    /\ results' = [t \in Tasks |-> NoResult]
    /\ ctx' = [p \in DOMAIN ctx |-> NewExtractor]
    /\ tstate' = [t \in Tasks |-> "queued"]
    /\ hist' = NoHist
    /\ UNCHANGED <<cfg, lock, outfiles, temps, stack>>

\* The driver is invoked again on the same input with the other setting of
\* numproc (worker pool on or off) and an empty output directory.
OtherPoolRun ==
    /\ AllDone
    /\ run = 1
    /\ run' = 3
    /\ cfg' = [cfg EXCEPT !.pool = ~@]
    /\ outfiles' = {}
    /\ prev' = results
    /\ results' = [t \in Tasks |-> NoResult]
    /\ ctx' = [p \in DOMAIN ctx |-> NewExtractor]
    /\ tstate' = [t \in Tasks |-> "queued"]
    /\ hist' = NoHist
    /\ UNCHANGED <<lock, temps, stack>>

\* The driver is invoked again on the k-th file of the input directory
\* alone, with the same settings and an empty output directory.
SoloRun(k) ==
    /\ AllDone
    /\ run = 1
    /\ Len(cfg.inputs) >= 2
    /\ run' = 4
    /\ cfg' = [cfg EXCEPT !.inputs = <<cfg.inputs[k]>>]
    /\ outfiles' = {}
    /\ prev' = <<results[k]>>
    /\ results' = <<NoResult>>
    /\ ctx' = [p \in 0..1 |-> NewExtractor]
    /\ tstate' = <<"queued">>
    /\ temps' = <<0>>
    /\ stack' = <<(<<>>)>>
    /\ hist' = NoHist
    /\ UNCHANGED lock

-----------------------------------------------------------------------------
(* ExtractionItem.extract: the entry guards                                *)

\* Variant: the depth guard lets one more level through
DepthExceededLate(depth) == depth > RECURSION_DEPTH + 1

\* Guards 1 and 2: complete, or deeper than RECURSION_DEPTH
DepthExceeded(depth) == depth > RECURSION_DEPTH

EntryGuards(t) ==
    /\ Running(t)
    /\ Top(t).pc = "new"
    /\ LET fr == Top(t)
       IN stack' = SetTop(t,
            IF GetStatus(fr) THEN [fr EXCEPT !.pc = "ret", !.res = Result(fr, TRUE)]
            ELSE IF DepthExceeded(fr.depth)
                 THEN [fr EXCEPT !.pc = "ret", !.res = Result(fr, GetStatus(fr))]
            ELSE [fr EXCEPT !.pc = "lock"])
    /\ UNCHANGED <<cfg, run, ctx, lock, outfiles, temps, tstate, results, prev, hist>>

\* with Extractor.visited_lock: (entering)
AcquireLock(t) ==
    /\ Running(t)
    /\ Top(t).pc = "lock"
    /\ lock = 0
    /\ lock' = t
    /\ stack' = SetTop(t, [Top(t) EXCEPT !.pc = "locked"])
    /\ UNCHANGED <<cfg, run, ctx, outfiles, temps, tstate, results, prev, hist>>

\* Variant: no checksum is ever found in visited
VisitedNever(fr, c) == FALSE

\* Guard 3, under the lock: skip a visited checksum, else insert it
Visited(fr, c) == fr.file \in c.visited

\* Variant: the skip branch returns without releasing the lock
LockKeptOnSkip(fr, c) == IF Visited(fr, c) THEN lock ELSE 0

\* Leaving `with Extractor.visited_lock:`, by the return of the skip branch
\* or at the end of the block: the lock is free
LockAfter(fr, c) == 0

CheckVisited(t) ==
    /\ Running(t)
    /\ Top(t).pc = "locked"
    /\ lock = t
    /\ LET fr == Top(t)
           c == ctx[Proc(t)]
       IN IF Visited(fr, c)
          THEN /\ stack' = SetTop(t, [fr EXCEPT !.pc = "ret", !.skipped = TRUE,
                                               !.res = Result(fr, GetStatus(fr))])
               /\ ctx' = ctx
          ELSE /\ stack' = SetTop(t, [fr EXCEPT !.pc = "black"])
               /\ ctx' = [ctx EXCEPT ![Proc(t)].visited = @ \cup {fr.file}]
    /\ lock' = LockAfter(Top(t), ctx[Proc(t)])
    /\ UNCHANGED <<cfg, run, outfiles, temps, tstate, results, prev, hist>>

\* Guard 4 and tempfile.mkdtemp(): the cascade begins
CheckBlacklist(t) ==
    /\ Running(t)
    /\ Top(t).pc = "black"
    /\ LET fr == Top(t)
       IN IF Blacklisted(fr.file)
          THEN /\ stack' = SetTop(t, [fr EXCEPT !.pc = "ret", !.res = Result(fr, GetStatus(fr))])
               /\ UNCHANGED <<temps, hist>>
          ELSE /\ stack' = SetTop(t, [fr EXCEPT !.pc = "stage", !.stage = 1, !.temp = TRUE])
               /\ temps' = [temps EXCEPT ![t] = @ + 1]
               /\ hist' = [hist EXCEPT !.ran = BagAdd(@, fr.file)]
    /\ UNCHANGED <<cfg, run, ctx, lock, outfiles, tstate, results, prev>>

-----------------------------------------------------------------------------
(* _check_recursive: the archive stage (1) and the compressed stage (6)    *)

RecursiveScan(fr) == IF fr.stage = 1 THEN ArchiveScan(fr.file) ELSE CompressedScan(fr.file)

\* _check_archive / _check_compressed: the scan that opens the stage
CheckRecursive(t) ==
    /\ Running(t)
    /\ Top(t).pc = "stage"
    /\ Top(t).stage \in {1, 6}
    /\ LET fr == Top(t)
       IN IF RecursiveScan(fr).raise
          THEN /\ stack' = SetTop(t, Caught(fr))
               /\ hist' = RunBinwalkRaised(hist)
          ELSE /\ stack' = SetTop(t, [fr EXCEPT !.pc = "walk", !.ei = 1, !.di = 1, !.fi = 1,
                                               !.count = 0, !.nchild = 0])
               /\ hist' = hist
    /\ UNCHANGED <<cfg, run, ctx, lock, outfiles, temps, tstate, results, prev>>

\* Where the loops of _check_recursive stand next, from entry ei, directory
\* di and file fi on: at the end of the entries, at an entry whose output
\* holds a UNIX tree, or at a file of a walked output directory.
RECURSIVE WalkEvent(_, _, _, _)
WalkEvent(entries, ei, di, fi) ==
    IF ei > Len(entries) THEN [kind |-> "end", ei |-> ei, di |-> 1, fi |-> 1]
    ELSE LET e == entries[ei]
         IN IF e.ext # "ok" THEN WalkEvent(entries, ei + 1, 1, 1)
            ELSE IF e.unix THEN [kind |-> "unix", ei |-> ei, di |-> 1, fi |-> 1]
            ELSE IF di > Len(e.tree) THEN WalkEvent(entries, ei + 1, 1, 1)
            ELSE IF fi > Cardinality(e.tree[di]) THEN WalkEvent(entries, ei, di + 1, 1)
            ELSE [kind |-> "file", ei |-> ei, di |-> di, fi |-> fi]

\* Variant: the count starts again in every directory of the walk
CountAtPerDirectory(fr, ev) == IF ev.ei = fr.ei /\ ev.di = fr.di THEN fr.count ELSE 0

\* The count of visited files as the walk reaches an event: `count = 0` is
\* set once per extracted entry, before os.walk.
CountAt(fr, ev) == IF ev.ei = fr.ei THEN fr.count ELSE 0

BreadthExceeded(count) == count > RECURSION_BREADTH

\* Variant: without an output directory do_rootfs is set instead of cleared
RootfsFlagSet(c) == IF cfg.outdir THEN c ELSE [c EXCEPT !.do_rootfs = TRUE]

\* shutil.make_archive(self.output, "gztar", ...), or without an output
\* directory the extractor's do_rootfs is cleared
WriteRootfs(fr, files) == IF cfg.outdir THEN files \cup {RootfsPath(fr.tag)} ELSE files
RootfsFlag(c) == IF cfg.outdir THEN c ELSE [c EXCEPT !.do_rootfs = FALSE]

\* The writes into the output directory, in order: the path written and the
\* file of the item that wrote it.
Wrote(h, path, fr) ==
    IF cfg.outdir THEN [h EXCEPT !.writes = Append(@, [path |-> path, src |-> fr.file])] ELSE h

\* Variant: the kernel is not copied to the output directory
WriteKernelNowhere(fr, files) == files

\* Variant: do_kernel is cleared whether or not there is an output directory
KernelFlagAlways(c) == [c EXCEPT !.do_kernel = FALSE]

\* shutil.copy(self.item, kernel_path), or without an output directory the
\* extractor's do_kernel is cleared
WriteKernel(fr, files) == IF cfg.outdir THEN files \cup {KernelPath(fr.tag)} ELSE files
KernelFlag(c) == IF cfg.outdir THEN c ELSE [c EXCEPT !.do_kernel = FALSE]

\* One pass of the loops of _check_recursive up to the next return or the
\* next child item.
Walk(t) ==
    /\ Running(t)
    /\ Top(t).pc = "walk"
    /\ LET fr == Top(t)
           c == ctx[Proc(t)]
           entries == RecursiveScan(fr).entries
           ev == WalkEvent(entries, fr.ei, fr.di, fr.fi)
           count == CountAt(fr, ev)
       IN CASE ev.kind = "end" ->
                 /\ stack' = SetTop(t, AfterStage(fr, FALSE, c, outfiles))
                 /\ temps' = ReleaseHeld(t, fr)
                 /\ UNCHANGED <<ctx, outfiles, hist>>
            [] ev.kind = "unix" ->
                 /\ outfiles' = WriteRootfs(fr, outfiles)
                 /\ ctx' = [ctx EXCEPT ![Proc(t)] = RootfsFlag(c)]
                 /\ stack' = SetTop(t, AfterStage(fr, TRUE, RootfsFlag(c), WriteRootfs(fr, outfiles)))
                 /\ temps' = ReleaseHeld(t, fr)
                 /\ hist' = Wrote(hist, RootfsPath(fr.tag), fr)
            [] ev.kind = "file" /\ BreadthExceeded(count) ->
                 /\ stack' = SetTop(t, AfterStage([fr EXCEPT !.terminate = TRUE], TRUE, c, outfiles))
                 /\ temps' = ReleaseHeld(t, fr)
                 /\ hist' = [hist EXCEPT !.terminated = TRUE]
                 /\ UNCHANGED <<ctx, outfiles>>
            [] ev.kind = "file" /\ ~BreadthExceeded(count) ->
                 LET ref == VisitOrder(entries[ev.ei].tree[ev.di], entries[ev.ei].orig)[ev.fi]
                     parent == [fr EXCEPT !.pc = "child", !.ei = ev.ei, !.di = ev.di,
                                          !.fi = ev.fi, !.count = count, !.held = 0,
                                          !.nchild = IF ev.ei = fr.ei THEN @ + 1 ELSE 1]
                     child == NewItem(ref.file, ref.name, RecursiveChildDepth(fr),
                                      ChildTag(fr), c, outfiles, "recursive")
                 IN /\ IF ConstructionRaises(ref.file)
                       THEN /\ stack' = SetTop(t, Caught(fr))
                            /\ hist' = [hist EXCEPT !.raised = TRUE]
                       ELSE /\ stack' = Push(t, parent, child)
                            /\ hist' = hist
                    /\ temps' = ReleaseHeld(t, fr)
                    /\ UNCHANGED <<ctx, outfiles>>
    /\ UNCHANGED <<cfg, run, lock, tstate, results, prev>>

-----------------------------------------------------------------------------
(* The other stages of the cascade                                         *)

\* _check_encryption (stage 2)
CheckEncryption(t) ==
    /\ Running(t)
    /\ Top(t).pc = "stage"
    /\ Top(t).stage = 2
    /\ stack' = SetTop(t, AfterStage(Top(t), HasShrsHeader(Top(t).file), ctx[Proc(t)], outfiles))
    /\ UNCHANGED <<cfg, run, ctx, lock, outfiles, temps, tstate, results, prev, hist>>

\* The length of the uImage header that precedes the image
UImageHeaderLen == 64

\* The base name of a file made by tempfile.mkstemp(dir=self.temp)
TmpName == <<0>>

NoPlan == [kind |-> "none", koff |-> 0, ksize |-> 0, roff |-> 0, rsize |-> 0]

\* int() raises ValueError on a malformed field of the description
ParseRaises == [kind |-> "raise", koff |-> 0, ksize |-> 0, roff |-> 0, rsize |-> 0]

\* Variant: the end of a range is not compared with the file size
WithinFileAlways(offset, size, fsize) == TRUE

\* offset + size <= os.path.getsize(self.item)
WithinFile(offset, size, fsize) == offset + size <= fsize

\* Extractor.io_dd(self.item, offset, size, tmp_path): the call is recorded
IoDd(h, f, offset, size) == [h EXCEPT !.carved = @ \cup {<<f, offset, size>>}]

\* The loop of _check_firmware over the artifacts: the first artifact that
\* passes its range check decides what is carved.
RECURSIVE FirmwarePlan(_, _, _)
FirmwarePlan(entries, i, fr) ==
    IF i > Len(entries) THEN NoPlan
    ELSE LET e == entries[i]
             size == Size(fr.file)
         IN IF e.kind = "uimagebad"
            THEN IF ~fr.status[1] /\ e.oskernel
                 THEN ParseRaises
                 ELSE FirmwarePlan(entries, i + 1, fr)
            ELSE IF e.kind = "trxbad"
            THEN IF ~fr.status[1] /\ ~fr.status[2]
                 THEN ParseRaises
                 ELSE FirmwarePlan(entries, i + 1, fr)
            ELSE IF e.kind = "uimage"
            THEN IF /\ ~fr.status[1]
                    /\ e.oskernel
                    /\ e.imgsize # 0
                    /\ WithinFile(e.offset + UImageHeaderLen, e.imgsize, size)
                 THEN [kind |-> "uimage", koff |-> e.offset + UImageHeaderLen,
                       ksize |-> e.imgsize, roff |-> 0, rsize |-> 0]
                 ELSE FirmwarePlan(entries, i + 1, fr)
            ELSE IF ~fr.status[1] /\ ~fr.status[2] /\ e.kind = "trx"
            THEN LET derive == e.koff # e.rlen /\ e.klen = 0 /\ e.rlen = 0
                     ksize == IF derive THEN e.roff - e.koff ELSE e.klen
                     rsize == IF derive THEN size - e.roff ELSE e.rlen
                 IN IF /\ ksize > 0
                       /\ WithinFile(e.koff, ksize, size)
                       /\ rsize # 0
                       /\ WithinFile(e.roff, rsize, size)
                    THEN [kind |-> "trx", koff |-> e.koff, ksize |-> ksize,
                          roff |-> e.roff, rsize |-> rsize]
                    ELSE FirmwarePlan(entries, i + 1, fr)
            ELSE FirmwarePlan(entries, i + 1, fr)

\* _check_firmware (stage 3) up to the first carved child item
CheckFirmware(t) ==
    /\ Running(t)
    /\ Top(t).pc = "stage"
    /\ Top(t).stage = 3
    /\ LET fr == Top(t)
           c == ctx[Proc(t)]
           scan == HeaderScan(fr.file)
           plan == FirmwarePlan(scan.entries, 1, fr)
       IN IF scan.raise \/ plan.kind = "raise"
          THEN /\ stack' = SetTop(t, Caught(fr))
               /\ hist' = IF scan.raise THEN RunBinwalkRaised(hist)
                                         ELSE [hist EXCEPT !.raised = TRUE]
          ELSE IF plan.kind = "none"
               THEN /\ stack' = SetTop(t, AfterStage(fr, FALSE, c, outfiles))
                    /\ hist' = hist
               ELSE /\ stack' = Push(t, [fr EXCEPT !.pc = "child"],
                                     NewItem(CarveContent(fr.file, plan.koff, plan.ksize),
                                             TmpName, CarvedChildDepth(fr), ChildTag(fr), c, outfiles,
                                             IF plan.kind = "uimage" THEN "uimage" ELSE "trxk"))
                    /\ hist' = IoDd(hist, fr.file, plan.koff, plan.ksize)
    /\ UNCHANGED <<cfg, run, ctx, lock, outfiles, temps, tstate, results, prev>>

\* _check_firmware, lines 619-625: after the kernel child returned, the
\* rootfs range is carved and extracted.
CarveRootfs(t) ==
    /\ Running(t)
    /\ Top(t).pc = "trx2"
    /\ LET fr == Top(t)
           c == ctx[Proc(t)]
           plan == FirmwarePlan(HeaderScan(fr.file).entries, 1, fr)
       IN /\ stack' = Push(t, [fr EXCEPT !.pc = "child"],
                           NewItem(CarveContent(fr.file, plan.roff, plan.rsize),
                                   TmpName, CarvedChildDepth(fr), ChildTag(fr), c, outfiles, "trxr"))
          /\ hist' = IoDd(hist, fr.file, plan.roff, plan.rsize)
    /\ UNCHANGED <<cfg, run, ctx, lock, outfiles, temps, tstate, results, prev>>

\* _check_kernel (stage 4)
CheckKernel(t) ==
    /\ Running(t)
    /\ Top(t).pc = "stage"
    /\ Top(t).stage = 4
    /\ LET fr == Top(t)
           c == ctx[Proc(t)]
           scan == KernelScan(fr.file)
       IN IF fr.status[1]
          THEN /\ stack' = SetTop(t, AfterStage(fr, FALSE, c, outfiles))
               /\ UNCHANGED <<ctx, outfiles, hist>>
          ELSE IF scan.raise
          THEN /\ stack' = SetTop(t, Caught(fr))
               /\ hist' = RunBinwalkRaised(hist)
               /\ UNCHANGED <<ctx, outfiles>>
          ELSE IF scan.entries # <<>> /\ scan.entries[1].kver /\ scan.entries[1].linux
          THEN /\ outfiles' = WriteKernel(fr, outfiles)
               /\ ctx' = [ctx EXCEPT ![Proc(t)] = KernelFlag(c)]
               /\ stack' = SetTop(t, AfterStage(fr, TRUE, KernelFlag(c), WriteKernel(fr, outfiles)))
               /\ hist' = Wrote(hist, KernelPath(fr.tag), fr)
          ELSE /\ stack' = SetTop(t, AfterStage(fr, FALSE, c, outfiles))
               /\ UNCHANGED <<ctx, outfiles, hist>>
    /\ UNCHANGED <<cfg, run, lock, temps, tstate, results, prev>>

\* The loop of _check_rootfs: the first successfully extracted artifact
\* decides; "none" when no artifact was extracted.
RECURSIVE RootfsVerdict(_, _)
RootfsVerdict(entries, i) ==
    IF i > Len(entries) THEN "none"
    ELSE IF entries[i].ext = "ok"
         THEN (IF entries[i].unix THEN "unix" ELSE "nounix")
         ELSE RootfsVerdict(entries, i + 1)

\* unix = Extractor.io_find_rootfs(entry.extractionDetails.outputDir): what
\* the call can return for the output directory of a filesystem image
\* (nothing is recorded for the other files, whose layout is not modelled).
FindRootfsResults(f) ==
    IF f[1] = "fsimg" THEN IoFindRootfs(Layout(f[2]), <<>>, TRUE) ELSE {<<FALSE, <<>>>>}

Found(h, f, r) ==
    IF f[1] = "fsimg" THEN [h EXCEPT !.found = @ \cup {<<f[2], r>>}] ELSE h

\* _check_rootfs (stage 5)
CheckRootfs(t) ==
    /\ Running(t)
    /\ Top(t).pc = "stage"
    /\ Top(t).stage = 5
    /\ LET fr == Top(t)
           c == ctx[Proc(t)]
           scan == RootfsScan(fr.file)
       IN IF fr.status[2]
          THEN /\ stack' = SetTop(t, AfterStage(fr, FALSE, c, outfiles))
               /\ UNCHANGED <<ctx, outfiles, hist>>
          ELSE IF scan.raise
          THEN /\ stack' = SetTop(t, Caught(fr))
               /\ hist' = RunBinwalkRaised(hist)
               /\ UNCHANGED <<ctx, outfiles>>
          ELSE IF RootfsVerdict(scan.entries, 1) = "unix"
          THEN /\ outfiles' = WriteRootfs(fr, outfiles)
               /\ ctx' = [ctx EXCEPT ![Proc(t)] = RootfsFlag(c)]
               /\ stack' = SetTop(t, AfterStage(fr, TRUE, RootfsFlag(c), WriteRootfs(fr, outfiles)))
               /\ \E r \in FindRootfsResults(fr.file) :
                    hist' = Found(Wrote(hist, RootfsPath(fr.tag), fr), fr.file, r)
          ELSE /\ stack' = SetTop(t, AfterStage(fr, FALSE, c, outfiles))
               /\ \E r \in FindRootfsResults(fr.file) : hist' = Found(hist, fr.file, r)
               /\ UNCHANGED <<ctx, outfiles>>
    /\ UNCHANGED <<cfg, run, lock, temps, tstate, results, prev>>

-----------------------------------------------------------------------------
(* A child item's extract() returns into the stage that called it          *)

\* What a returned child leaves referenced by the stage's local variable:
\* its temporary directory, if it made one.
HeldBy(child) == IF child.temp THEN 1 ELSE 0

\* The terminate flag of the parent after a child returned
ParentTerminate(parent, child) == parent.terminate

ChildReturn(t) ==
    /\ Running(t)
    /\ Len(stack[t]) >= 2
    /\ Top(t).pc = "ret"
    /\ LET child == Top(t)
           n == Len(stack[t])
           c == ctx[Proc(t)]
           p0 == stack[t][n - 1]
           p1 == [p0 EXCEPT !.held = @ + HeldBy(child),
                            !.terminate = ParentTerminate(p0, child)]
           pu == [p1 EXCEPT !.status = UpdateStatus(p1.tag, c, outfiles)]
           after ==
             CASE child.via = "recursive" ->
                    \* lines 751-758
                    IF child.res.status /\ GetStatus(pu)
                    THEN AfterStage(pu, TRUE, c, outfiles)
                    ELSE [(IF child.res.status THEN pu ELSE p1)
                            EXCEPT !.pc = "walk", !.count = @ + 1, !.fi = @ + 1]
               [] child.via = "uimage" ->
                    \* line 571: the child's result dictionary is the stage's result
                    AfterStage(p1, TRUE, c, outfiles)
               [] child.via = "trxk" ->
                    [p1 EXCEPT !.pc = "trx2"]
               [] child.via = "trxr" ->
                    \* line 627: return self.update_status()
                    AfterStage(pu, GetStatus(pu), c, outfiles)
       IN /\ stack' = [stack EXCEPT ![t] = Append(SubSeq(@, 1, n - 2), after)]
          /\ temps' = [temps EXCEPT ![t] = @ - (p1.held - after.held)]
    /\ UNCHANGED <<cfg, run, ctx, lock, outfiles, tstate, results, prev, hist>>

-----------------------------------------------------------------------------

Next ==
    \/ \E t \in Tasks : TaskStart(t)
    \/ \E t \in Tasks : EntryGuards(t)
    \/ \E t \in Tasks : AcquireLock(t)
    \/ \E t \in Tasks : CheckVisited(t)
    \/ \E t \in Tasks : CheckBlacklist(t)
    \/ \E t \in Tasks : CheckRecursive(t)
    \/ \E t \in Tasks : Walk(t)
    \/ \E t \in Tasks : CheckEncryption(t)
    \/ \E t \in Tasks : CheckFirmware(t)
    \/ \E t \in Tasks : CarveRootfs(t)
    \/ \E t \in Tasks : CheckKernel(t)
    \/ \E t \in Tasks : CheckRootfs(t)
    \/ \E t \in Tasks : ChildReturn(t)
    \/ \E t \in Tasks : TaskDone(t)
    \/ SecondRun
    \/ OtherPoolRun
    \/ \E t \in Tasks : SoloRun(t)

Spec == Init /\ [][Next]_vars

\* Every call that has something to do goes on: the interpreter runs the
\* driver and each pool worker until they return.
FairSpec == Spec /\ WF_vars(Next)

-----------------------------------------------------------------------------
(* Properties                                                              *)

Frames(t) == {stack[t][i] : i \in 1..Len(stack[t])}
AllFrames == UNION {Frames(t) : t \in Tasks}
InCascade(fr) == fr.temp \/ fr.stage > 0 \/ fr.pc \in {"stage", "walk", "child", "trx2"}

\* C1: in any run, at most one item per checksum allocates a tempDir and
\* runs the cascade; an item that finds its checksum in visited returns with
\* the flags it had at entry, without a tempDir and without children.
C1_Dedup ==
    /\ \A f \in DOMAIN hist.ran : hist.ran[f] <= 1
    /\ \A t \in Tasks : \A i \in 1..Len(stack[t]) :
         stack[t][i].skipped =>
           /\ i = Len(stack[t])
           /\ stack[t][i].pc = "ret"
           /\ ~InCascade(stack[t][i])
           /\ stack[t][i].status = stack[t][i].entry
           /\ stack[t][i].res.kernelDone = stack[t][i].entry[1]
           /\ stack[t][i].res.rootfsDone = stack[t][i].entry[2]

\* C2: with the worker pool, of two workers holding items with the same
\* content hash exactly one runs the cascade: never are two items of the same
\* checksum in their cascade in two workers.
C2_PoolExactlyOne ==
    cfg.pool =>
      \A t \in Tasks : \A u \in Tasks \ {t} :
        \A a \in Frames(t) : \A b \in Frames(u) :
          a.file = b.file => ~(InCascade(a) /\ InCascade(b))

\* C3: no item deeper than RECURSION_DEPTH allocates a tempDir or runs a
\* stage, and a child spawned by the archive/compressed sub-procedure is one
\* level deeper than its parent.
C3_DepthBound ==
    \A t \in Tasks : \A i \in 1..Len(stack[t]) :
      LET fr == stack[t][i]
      IN /\ InCascade(fr) => fr.depth <= RECURSION_DEPTH
         /\ (i > 1 /\ fr.via = "recursive") => fr.depth = stack[t][i - 1].depth + 1

\* C3 witness: an item at depth 4 was constructed and returned at the depth
\* guard, with no tempDir.
C3_Witness ==
    \E fr \in AllFrames :
      fr.depth = RECURSION_DEPTH + 1 /\ fr.pc = "ret" /\ ~fr.temp /\ ~GetStatus(fr)

\* C4: in one traversal at most RECURSION_BREADTH children are spawned, and
\* terminate is set on reaching the 6th file.
C4_BreadthBound ==
    \A fr \in AllFrames :
      /\ fr.nchild <= RECURSION_BREADTH
      /\ fr.terminate => fr.count = RECURSION_BREADTH

\* The files of a walked tree that precede file fi of directory di
RECURSIVE FilesBefore(_, _, _)
FilesBefore(tree, di, fi) ==
    IF di <= 1 \/ tree = <<>> THEN fi - 1
    ELSE Cardinality(tree[di - 1]) + FilesBefore(tree, di - 1, fi)

RECURSIVE TreeFiles(_)
TreeFiles(tree) ==
    IF tree = <<>> THEN 0 ELSE Cardinality(Head(tree)) + TreeFiles(Tail(tree))

WalkedTree(fr) ==
    LET entries == RecursiveScan(fr).entries
    IN IF fr.ei <= Len(entries) THEN entries[fr.ei].tree ELSE <<>>

\* C5 (as stated): a tree in which every directory holds at most
\* RECURSION_BREADTH files never sets terminate.
C5_PerDirectory ==
    \A fr \in AllFrames :
      (\A d \in 1..Len(WalkedTree(fr)) : Cardinality(WalkedTree(fr)[d]) <= RECURSION_BREADTH)
        => ~fr.terminate

\* C5 (amended): the count is kept per extracted artifact over the whole
\* walk of its output tree, across directories: it equals the number of
\* files of the tree already visited; terminate is set only when it exceeds
\* RECURSION_BREADTH, so a tree of at most RECURSION_BREADTH + 1 files never
\* sets terminate.
C5_PerArtifact ==
    \A fr \in AllFrames :
      /\ (fr.pc \in {"walk", "child"} \/ fr.terminate) =>
           fr.count = FilesBefore(WalkedTree(fr), fr.di, fr.fi)
      /\ fr.terminate => fr.count > RECURSION_BREADTH
      /\ TreeFiles(WalkedTree(fr)) <= RECURSION_BREADTH + 1 => ~fr.terminate

\* C5 witness: terminate is set in a tree of several directories none of
\* which holds more than RECURSION_BREADTH files.
C5_Witness ==
    \E fr \in AllFrames :
      /\ fr.terminate
      /\ Len(WalkedTree(fr)) > 1
      /\ \A d \in 1..Len(WalkedTree(fr)) : Cardinality(WalkedTree(fr)[d]) <= RECURSION_BREADTH

TopTag(t) == GenerateTag(cfg.inputs[t].name, cfg.inputs[t].file)

\* C6: every item descended from a top-level input, whether spawned one
\* level deeper by the archive/compressed sub-procedure or carved at the
\* same depth by the firmware stage, carries that input's tag, so its output
\* paths are the input's two paths and the output directory holds nothing
\* but those paths: at most one kernel and one rootfs archive per tag.
C6_OutputUniqueness ==
    /\ \A t \in Tasks : \A fr \in Frames(t) :
         /\ fr.tag = TopTag(t)
         /\ KernelPath(fr.tag) = KernelPath(TopTag(t))
         /\ RootfsPath(fr.tag) = RootfsPath(TopTag(t))
    /\ outfiles \subseteq UNION {{KernelPath(TopTag(t)), RootfsPath(TopTag(t))} : t \in Tasks}
    /\ \A t \in Tasks : \A ext \in {"kernel", "tar.gz"} :
         Cardinality({p \in outfiles : p[1] = TopTag(t) /\ p[2] = ext}) <= 1

\* C6 witness: below a top-level archive, a child one level deeper carved
\* its kernel and is running the item carved from its rootfs range, and the
\* kernel was written under the top-level tag.
C6_Witness ==
    \E t \in Tasks :
      /\ Len(stack[t]) = 3
      /\ stack[t][2].via = "recursive"
      /\ stack[t][2].depth = 1
      /\ stack[t][3].via = "trxr"
      /\ stack[t][3].depth = 1
      /\ KernelPath(TopTag(t)) \in outfiles

\* C7: kernelDone and rootfsDone of an item never go from true back to
\* false while the item lives.
C7_Monotonic ==
    [][\A t \in Tasks : \A i \in 1..Len(stack[t]) :
         i <= Len(stack'[t]) =>
           /\ stack[t][i].status[1] => stack'[t][i].status[1]
           /\ stack[t][i].status[2] => stack'[t][i].status[2]]_vars

\* C7 witness: update_status has set a flag of a live item that was false
\* when the item was constructed.
C7_Witness ==
    \E fr \in AllFrames :
      \/ fr.status[1] /\ ~fr.entry[1]
      \/ fr.status[2] /\ ~fr.entry[2]

\* The temporary directories the live items of a stack own: their own, and
\* those of returned children a stage still references.
RECURSIVE OwnedTemps(_)
OwnedTemps(frames) ==
    IF frames = <<>> THEN 0
    ELSE (IF Head(frames).temp THEN 1 ELSE 0) + Head(frames).held + OwnedTemps(Tail(frames))

\* C8: every temporary directory on disk belongs to a live item, and when a
\* top-level extract() has returned none of its temporary directories
\* remains: after the driver returns there is none at all.
C8_TempCleanup ==
    \A t \in Tasks :
      /\ temps[t] = OwnedTemps(stack[t])
      /\ tstate[t] # "running" => temps[t] = 0

\* C8 witness: the driver has returned from a run in which items allocated
\* temporary directories and a stage raised.
C8_Witness ==
    /\ AllDone
    /\ hist.raised
    /\ DOMAIN hist.ran # {}
    /\ \A t \in Tasks : temps[t] = 0

\* C9: an item that set terminate runs no further stage (it is returning,
\* with status true); when such a child returns into the walk of its parent,
\* the parent's terminate stays false and the parent either returns complete
\* (both of its own flags true) or goes on with the next file of the walk.
C9_TerminateLocal ==
    [][/\ \A t \in Tasks : \A i \in 1..Len(stack[t]) :
            stack[t][i].terminate =>
              /\ i = Len(stack[t])
              /\ stack[t][i].pc = "ret"
              /\ stack[t][i].res.status
       /\ \A t \in Tasks :
            (/\ Len(stack[t]) >= 2
             /\ Top(t).pc = "ret"
             /\ Top(t).terminate
             /\ Top(t).via = "recursive"
             /\ Len(stack'[t]) = Len(stack[t]) - 1) =>
               LET p == stack[t][Len(stack[t]) - 1]
                   q == stack'[t][Len(stack[t]) - 1]
               IN /\ ~q.terminate
                  /\ IF q.status[1] /\ q.status[2]
                     THEN q.pc = "ret" /\ q.res.status
                     ELSE /\ q.pc = "walk"
                          /\ q.stage = p.stage
                          /\ <<q.ei, q.di, q.fi>> = <<p.ei, p.di, p.fi + 1>>]_vars

\* C9 witness: after a child terminated early, its parent spawned the next
\* file of the walk, which is running its kernel stage.
C9_Witness ==
    \E t \in Tasks :
      /\ Len(stack[t]) >= 2
      /\ hist.terminated
      /\ stack[t][Len(stack[t]) - 1].pc = "child"
      /\ stack[t][Len(stack[t]) - 1].fi >= 2
      /\ ~stack[t][Len(stack[t]) - 1].terminate
      /\ Top(t).via = "recursive"
      /\ Top(t).pc = "stage"
      /\ Top(t).stage = 4

\* C10: a second run of the driver on the same input and output directory
\* returns, for every top-level input, the status, kernelDone and rootfsDone
\* of the first run.
C10_Idempotent ==
    (run = 2 /\ AllDone) =>
      \A t \in Tasks :
        /\ results[t].status = prev[t].status
        /\ results[t].kernelDone = prev[t].kernelDone
        /\ results[t].rootfsDone = prev[t].rootfsDone

\* C11: an item that is complete at construction (both flags true: the
\* output file exists or the class is not requested) returns status true at
\* guard 1, and that step changes nothing else: no visited insertion, no
\* lock, no temporary directory, no cascade run, no child, no output write.
C11_CompleteAtEntry ==
    [][\A t \in Tasks :
         (/\ stack[t] # <<>>
          /\ Top(t).pc = "new"
          /\ Top(t).status[1] /\ Top(t).status[2]
          /\ stack'[t] # stack[t]) =>
            /\ stack'[t] = [stack[t] EXCEPT ![Len(stack[t])] =
                              [Top(t) EXCEPT !.pc = "ret", !.res = Result(Top(t), TRUE)]]
            /\ stack'[t][Len(stack[t])].res.status
            /\ ~stack'[t][Len(stack[t])].temp
            /\ UNCHANGED <<ctx, lock, outfiles, temps, hist>>]_vars

\* C11 witness: in the second run, with both classes requested, an item
\* found both of its output files at construction and has returned.
C11_Witness ==
    \E t \in Tasks :
      /\ run = 2
      /\ cfg.outdir /\ cfg.kernel /\ cfg.rootfs
      /\ stack[t] # <<>>
      /\ Top(t).pc = "ret"
      /\ Top(t).entry = <<TRUE, TRUE>>
      /\ Top(t).res.status
      /\ {KernelPath(Top(t).tag), RootfsPath(Top(t).tag)} \subseteq outfiles

\* C12: in every result extract() returns, status is true if and only if
\* kernelDone and rootfsDone are both true in that result.
C12_StatusIffComplete ==
    \A fr \in AllFrames :
      fr.pc = "ret" => (fr.res.status <=> (fr.res.kernelDone /\ fr.res.rootfsDone))

\* Whether the scan the current stage of an item makes fails (runBinwalk
\* raises RuntimeError); stages 4 and 5 scan only while their flag is false.
StageScanRaises(fr) ==
    CASE fr.stage \in {1, 6} -> RecursiveScan(fr).raise
      [] fr.stage = 3 -> HeaderScan(fr.file).raise
      [] fr.stage = 4 -> ~fr.status[1] /\ KernelScan(fr.file).raise
      [] fr.stage = 5 -> ~fr.status[2] /\ RootfsScan(fr.file).raise
      [] OTHER -> FALSE

\* C13: a stage whose scan fails behaves as a stage that found no artifact:
\* it returns false and the cascade goes on with the next stage.
C13_ScanFailureContinues ==
    [][\A t \in Tasks :
         (/\ stack[t] # <<>>
          /\ Top(t).pc = "stage"
          /\ StageScanRaises(Top(t))
          /\ stack'[t] # stack[t]) =>
            stack'[t] = [stack[t] EXCEPT ![Len(stack[t])] =
                           AfterStage(Top(t), FALSE, ctx[Proc(t)], outfiles)]]_vars

\* C14: no exception raised while an input is processed escapes: every
\* input the driver takes up ends with a result, never with an exception
\* that ends the driver.
C14_ExceptionsSurfaced ==
    \A t \in Tasks : tstate[t] # "raised"

\* What two results are compared on: status, kernelDone and rootfsDone
Verdict(r) == <<r.status, r.kernelDone, r.rootfsDone>>

\* C15: on the same input directory and an empty output directory, the run
\* with the worker pool and the run without it return the same set of
\* results: the same status, kernelDone and rootfsDone for each tag.
C15_PoolSerialSame ==
    (run = 3 /\ AllDone) =>
      {<<results[t].tag, Verdict(results[t])>> : t \in Tasks}
        = {<<prev[t].tag, Verdict(prev[t])>> : t \in Tasks}

\* C16: the result of a top-level input in a run with other inputs is the
\* result it has when it is the only input of the run.
C16_Independent ==
    (run = 4 /\ AllDone) => Verdict(results[1]) = Verdict(prev[1])

\* The item of task t at position i finds a kernel, or a UNIX tree, in the
\* step it takes
FindsKernel(fr) ==
    /\ fr.pc = "stage" /\ fr.stage = 4 /\ ~fr.status[1]
    /\ ~KernelScan(fr.file).raise
    /\ KernelScan(fr.file).entries # <<>>
    /\ KernelScan(fr.file).entries[1].kver /\ KernelScan(fr.file).entries[1].linux

FindsRootfs(fr) ==
    \/ /\ fr.pc = "stage" /\ fr.stage = 5 /\ ~fr.status[2]
       /\ ~RootfsScan(fr.file).raise
       /\ RootfsVerdict(RootfsScan(fr.file).entries, 1) = "unix"
    \/ /\ fr.pc = "walk"
       /\ WalkEvent(RecursiveScan(fr).entries, fr.ei, fr.di, fr.fi).kind = "unix"

\* C17: within a run, do_kernel and do_rootfs of an Extractor never go from
\* false to true, and go from true to false only in a step in which a stage
\* finds its artifact (a Linux kernel, a UNIX tree) while no output
\* directory is configured.
C17_WriteOnceFalse ==
    [][run' = run =>
         \A p \in DOMAIN ctx :
           /\ ctx'[p].do_kernel => ctx[p].do_kernel
           /\ ctx'[p].do_rootfs => ctx[p].do_rootfs
           /\ (ctx[p].do_kernel /\ ~ctx'[p].do_kernel) =>
                /\ ~cfg.outdir
                /\ \E t \in Tasks : /\ Proc(t) = p /\ stack[t] # <<>>
                                    /\ stack'[t] # stack[t] /\ FindsKernel(Top(t))
           /\ (ctx[p].do_rootfs /\ ~ctx'[p].do_rootfs) =>
                /\ ~cfg.outdir
                /\ \E t \in Tasks : /\ Proc(t) = p /\ stack[t] # <<>>
                                    /\ stack'[t] # stack[t] /\ FindsRootfs(Top(t))]_vars

\* C17 witness: both flags were requested and both have been cleared.
C17_Witness ==
    \E p \in DOMAIN ctx :
      /\ cfg.kernel /\ cfg.rootfs /\ ~cfg.outdir
      /\ ~ctx[p].do_kernel /\ ~ctx[p].do_rootfs

\* An item between the visited guard and its return
Working(fr) == fr.pc \in {"black", "stage", "walk", "child", "trx2"}

\* C18: the stages of an item run in the order 1 (archive), 2 (encryption),
\* 3 (firmware header), 4 (kernel), 5 (rootfs), 6 (compressed): the cascade
\* starts at stage 1 and a stage is followed by the next one or by the return.
\* A stage that returned true is followed by a status re-evaluated from the
\* output directory, and no stage runs in an item whose status is complete.
C18_CascadeOrder ==
    [][\A t \in Tasks : \A i \in 1..Len(stack[t]) :
         LET fr == stack[t][i]
         IN /\ Working(fr) => ~GetStatus(fr)
            /\ fr.pc \in {"stage", "walk", "child", "trx2"} => fr.stage \in 1..6
            /\ (i <= Len(stack'[t]) /\ run' = run) =>
                 LET nx == stack'[t][i]
                 IN /\ (fr.pc = "black" /\ nx.pc = "stage") => nx.stage = 1
                    /\ (fr.pc \in {"stage", "walk", "child", "trx2"} /\ Working(nx)) =>
                         nx.stage \in {fr.stage, fr.stage + 1}
                    /\ (Working(fr) /\ nx.stage = fr.stage + 1) =>
                         nx.pc = "stage" /\ nx.stage <= 6
                    /\ (Working(fr) /\ nx.pc = "ret" /\ ~nx.res.status /\ fr.pc # "black") =>
                         (nx.stage = 6 \/ hist'.raised)
                    /\ nx.status # fr.status =>
                         nx.status = UpdateStatus(fr.tag, ctx'[Proc(t)], outfiles')]_vars

\* C18 witness: a stage returned true, the re-evaluated status was not
\* complete, and the item has reached its last stage.
C18_Witness ==
    \E fr \in AllFrames :
      /\ fr.pc = "stage"
      /\ fr.stage = 6
      /\ fr.status # fr.entry

\* C19: the rootfs stage, run while rootfsDone is false, returns true (and
\* writes the archive when there is an output directory) if and only if at
\* least one successfully extracted artifact of its scan holds a UNIX tree,
\* whatever comes before that artifact.
C19_RootfsAnyArtifact ==
    [][\A t \in Tasks :
         (/\ stack[t] # <<>>
          /\ Top(t).pc = "stage" /\ Top(t).stage = 5
          /\ ~Top(t).status[2]
          /\ ~RootfsScan(Top(t).file).raise
          /\ stack'[t] # stack[t]) =>
            LET fr == Top(t)
                entries == RootfsScan(fr.file).entries
                any == \E i \in 1..Len(entries) : entries[i].ext = "ok" /\ entries[i].unix
            IN /\ outfiles' = IF any THEN WriteRootfs(fr, outfiles) ELSE outfiles
               /\ stack'[t] = [stack[t] EXCEPT ![Len(stack[t])] =
                                 AfterStage(fr, any, ctx'[Proc(t)], outfiles')]]_vars

\* The first artifact of a header scan that is a TP-Link/TRX header
FirstTrx(entries) ==
    IF \E i \in 1..Len(entries) : entries[i].kind = "trx"
    THEN entries[CHOOSE i \in 1..Len(entries) :
                   /\ entries[i].kind = "trx"
                   /\ \A j \in 1..(i - 1) : entries[j].kind # "trx"]
    ELSE HeaderEntry("none", FALSE, 0, 0, 0, 0, 0, 0)

\* C20: for a TP-Link/TRX header with both lengths zero, the firmware stage
\* takes kernel_size = rootfs_offset - kernel_offset and rootfs_size =
\* file_size - rootfs_offset, for every kernel_offset (0 included), and when
\* these pass the range check it carves the kernel range into a child item.
C20_TrxDerivedSizes ==
    [][\A t \in Tasks :
         (/\ stack[t] # <<>>
          /\ Top(t).pc = "stage" /\ Top(t).stage = 3
          /\ ~Top(t).status[1] /\ ~Top(t).status[2]
          /\ ~HeaderScan(Top(t).file).raise
          /\ FirstTrx(HeaderScan(Top(t).file).entries).kind = "trx"
          /\ FirstTrx(HeaderScan(Top(t).file).entries).klen = 0
          /\ FirstTrx(HeaderScan(Top(t).file).entries).rlen = 0
          /\ stack'[t] # stack[t]) =>
            LET fr == Top(t)
                e == FirstTrx(HeaderScan(fr.file).entries)
                size == Size(fr.file)
                ksize == e.roff - e.koff
                rsize == size - e.roff
            IN (ksize > 0 /\ e.koff + ksize <= size /\ rsize # 0 /\ e.roff + rsize <= size) =>
                 /\ Len(stack'[t]) = Len(stack[t]) + 1
                 /\ stack'[t][Len(stack'[t])].via = "trxk"
                 /\ stack'[t][Len(stack'[t])].file = CarveContent(fr.file, e.koff, ksize)]_vars

\* C21: every io_dd call of the firmware stage has size > 0, offset >= 0 and
\* offset + size <= the size of the source file; and when one of the two
\* ranges a TRX header declares fails the check, neither range is carved.
C21_CarveRangeSafe ==
    /\ \A call \in hist.carved :
         /\ call[3] > 0
         /\ call[2] >= 0
         /\ call[2] + call[3] <= Size(call[1])
    /\ \A call \in hist.carved :
         (call[1][1] = "trxh" /\ call[1][3] # 0 /\ call[1][5] # 0) =>
           /\ call[1][2] + call[1][3] <= Size(call[1])
           /\ call[1][4] + call[1][5] <= Size(call[1])

\* C21 witness: both ranges of a TRX header were carved, the kernel range
\* being the whole file.
C21_Witness ==
    /\ <<TrxHdr(0, 832, 320, 512), 0, 832>> \in hist.carved
    /\ <<TrxHdr(0, 832, 320, 512), 320, 512>> \in hist.carved

\* The header scan of an item yields, as its TP-Link/TRX artifact, a header
\* that declares a kernel and a rootfs range, both within the file; the
\* fields of every artifact of the scan parse.
DeclaredTrx(fr) ==
    LET e == FirstTrx(HeaderScan(fr.file).entries)
    IN /\ ~HeaderScan(fr.file).raise
       /\ WellFormed(HeaderScan(fr.file).entries) = HeaderScan(fr.file).entries
       /\ e.kind = "trx"
       /\ e.klen > 0 /\ e.koff + e.klen <= Size(fr.file)
       /\ e.rlen > 0 /\ e.roff + e.rlen <= Size(fr.file)

\* In this step the top item of task t carves [offset, offset + size) of its
\* file and starts the carved file as a child `via`, at its own depth and
\* with its own tag.
CarvesChild(t, offset, size, via) ==
    LET fr == Top(t)
        ch == stack'[t][Len(stack[t]) + 1]
    IN /\ Len(stack'[t]) = Len(stack[t]) + 1
       /\ ch.via = via
       /\ ch.file = CarveContent(fr.file, offset, size)
       /\ ch.depth = fr.depth
       /\ ch.tag = fr.tag
       /\ hist'.carved = hist.carved \cup {<<fr.file, offset, size>>}

C23_KernelStage ==
    [][\A t \in Tasks :
         (/\ stack[t] # <<>>
          /\ Top(t).pc = "stage" /\ Top(t).stage = 4
          /\ ~(~Top(t).status[1] /\ KernelScan(Top(t).file).raise)
          /\ stack'[t] # stack[t]) =>
            LET fr == Top(t)
                entries == KernelScan(fr.file).entries
                hit == /\ ~fr.status[1]
                       /\ entries # <<>>
                       /\ entries[1].kver /\ entries[1].linux
                top == stack'[t][Len(stack[t])]
            IN /\ Len(stack'[t]) = Len(stack[t])
               /\ top = AfterStage(fr, hit, ctx'[Proc(t)], outfiles')
               /\ (hit /\ cfg.outdir) =>
                    /\ outfiles' = outfiles \cup {KernelPath(fr.tag)}
                    /\ hist'.writes = Append(hist.writes,
                                             [path |-> KernelPath(fr.tag), src |-> fr.file])
                    /\ ctx' = ctx
               /\ (hit /\ ~cfg.outdir) =>
                    /\ outfiles' = outfiles
                    /\ ctx' = [ctx EXCEPT ![Proc(t)].do_kernel = FALSE]
               /\ ~hit => UNCHANGED <<outfiles, ctx, hist>>]_vars

\* C23 witness: the kernel stage copied a Linux kernel image to the output
\* directory and the item went on to the rootfs stage.
C23_Witness ==
    \E fr \in AllFrames :
      /\ fr.file = Kernel
      /\ fr.pc = "stage" /\ fr.stage = 5
      /\ ~fr.entry[1] /\ fr.status[1]
      /\ cfg.outdir
      /\ [path |-> KernelPath(fr.tag), src |-> Kernel] \in {hist.writes[i] : i \in DOMAIN hist.writes}

\* C24: a malformed description field makes the firmware stage skip only the
\* offending artifact: the stage acts as if the scan had listed the other
\* artifacts alone (it carves what the first of them that passes its range
\* check declares, or returns false), and the item goes on to its later
\* stages.
C24_ParseErrorSkipsArtifact ==
    [][\A t \in Tasks :
         (/\ stack[t] # <<>>
          /\ Top(t).pc = "stage" /\ Top(t).stage = 3
          /\ ~HeaderScan(Top(t).file).raise
          /\ WellFormed(HeaderScan(Top(t).file).entries) # HeaderScan(Top(t).file).entries
          /\ stack'[t] # stack[t]) =>
            LET fr == Top(t)
                plan == FirmwarePlan(WellFormed(HeaderScan(fr.file).entries), 1, fr)
            IN IF plan.kind = "none"
               THEN /\ Len(stack'[t]) = Len(stack[t])
                    /\ Top(t)' = AfterStage(fr, FALSE, ctx[Proc(t)], outfiles)
               ELSE /\ Len(stack'[t]) = Len(stack[t]) + 1
                    /\ stack'[t][Len(stack'[t])].file = CarveContent(fr.file, plan.koff, plan.ksize)
                    /\ hist'.carved = hist.carved \cup {<<fr.file, plan.koff, plan.ksize>>}]_vars

\* C25: the directory made to hold the scanner's log is deleted before
\* runBinwalk returns or raises, on success and on every failure path: no
\* log directory is ever left behind.
C25_LogDirDeleted == hist.logDirs = 0

\* The depth of the deepest item of task t that is being extracted.
DeepestActive(t) ==
    LET ds == {stack[t][i].depth : i \in DOMAIN stack[t]}
    IN CHOOSE d \in ds : \A e \in ds : e <= d

\* C26: at every instant, in one worker, the number of temporary directories
\* that exist is at most the depth of the deepest active item plus one, hence
\* at most 4; the same-depth children carved by the firmware stage do not
\* push the count above it.
C26_TempBound ==
    \A t \in Tasks :
      stack[t] # <<>> =>
        /\ temps[t] <= DeepestActive(t) + 1
        /\ temps[t] <= RECURSION_DEPTH + 1

\* C27: io_find_rootfs(dir) returns (true, p) if and only if, after
\* collapsing the chain of directories whose single entry is a subdirectory,
\* the directory reached has at least 4 immediate subdirectories named in the
\* UNIX set (p is that directory), or, one level down only, one of its
\* subdirectories after its own collapse has (p is that one); otherwise it
\* returns (false, dir) with the path it was called on.
C27_FindRootfs ==
    \A call \in hist.found :
      LET root == Layout(call[1])
          res == call[2]
          UnixTree(path) ==
              Cardinality({e \in ListDir(root, path) : e.dir /\ e.name \in UNIX_DIRS}) >= 4
          top == SingleChain(root, <<>>)
          below == {SingleChain(root, Append(top, e.name)) :
                      e \in {d \in ListDir(root, top) : d.dir}}
          good == IF UnixTree(top) THEN {top} ELSE {p \in below : UnixTree(p)}
      IN /\ res[1] <=> good # {}
         /\ res[1] => res[2] \in good
         /\ ~res[1] => res[2] = <<>>

\* C27 witness: the rootfs stage found the UNIX tree of a layout one level
\* down and behind a single-entry directory, and wrote the archive of it.
C27_Witness ==
    /\ <<4, <<TRUE, <<"a", "b">>>>>> \in hist.found
    /\ cfg.outdir
    /\ \E i \in DOMAIN hist.writes : hist.writes[i].src = FsImage(4)

\* C28: an item of a blacklisted type that passed the first three guards
\* (not complete, depth at most 3, checksum not yet visited) returns status
\* false with kernelDone and rootfsDone as they were at entry; it makes no
\* temporary directory, calls no scanner, runs no child and writes no output.
C28_BlacklistFrame ==
    [][\A t \in Tasks :
         (/\ stack[t] # <<>>
          /\ Top(t).pc = "black"
          /\ Top(t).file = Text
          /\ stack'[t] # stack[t]) =>
            LET fr == Top(t)
                top == stack'[t][Len(stack[t])]
            IN /\ ~GetStatus(fr) /\ fr.depth <= RECURSION_DEPTH
               /\ Len(stack'[t]) = Len(stack[t])
               /\ top.pc = "ret"
               /\ top.res = [status |-> FALSE, tag |-> fr.tag,
                             kernelDone |-> fr.entry[1], rootfsDone |-> fr.entry[2]]
               /\ ~top.temp /\ top.nchild = 0
               /\ UNCHANGED <<temps, outfiles, hist, ctx>>]_vars

\* C28 witness: a text file passed the guards and returned from the
\* blacklist test without a temporary directory.
C28_Witness ==
    \E t \in Tasks :
      /\ stack[t] # <<>>
      /\ Top(t).file = Text
      /\ Top(t).pc = "ret"
      /\ ~Top(t).skipped /\ ~Top(t).temp
      /\ ~Top(t).entry[1] /\ ~Top(t).res.status
      /\ Top(t).depth <= RECURSION_DEPTH
      /\ Text \in ctx[Proc(t)].visited
      /\ Len(stack[t]) >= 2

\* What bounds the recursion of one top-level extract(): an item in its
\* cascade is at depth 3 at most and a child of the archive or compressed
\* stage is one level deeper than its parent; a carved range is shorter than
\* the file it is carved from or is the whole file; a carved child with its
\* parent's checksum finds it in visited and never starts a cascade; no two
\* items of one call chain run the cascade on the same checksum.
TerminationArgument ==
    /\ \A t \in Tasks : \A i \in 1..Len(stack[t]) :
         LET fr == stack[t][i]
         IN /\ InCascade(fr) => fr.depth <= RECURSION_DEPTH
            /\ (i > 1 /\ fr.via = "recursive") => fr.depth = stack[t][i - 1].depth + 1
            /\ (i > 1 /\ fr.via \in {"trxk", "trxr", "uimage"}) =>
                 /\ fr.depth = stack[t][i - 1].depth
                 /\ fr.file = stack[t][i - 1].file =>
                      /\ fr.file \in ctx[Proc(t)].visited
                      /\ ~InCascade(fr)
            /\ \A j \in 1..Len(stack[t]) :
                 (j # i /\ InCascade(fr) /\ InCascade(stack[t][j])) => stack[t][j].file # fr.file
    /\ \A call \in hist.carved :
         \/ call[3] < Size(call[1])
         \/ call[2] = 0 /\ call[3] = Size(call[1])

\* C29: every top-level extract() call terminates: the children of the
\* archive and compressed stages are bounded in depth, and a carved child is
\* strictly smaller than its parent or has the parent's checksum, which is
\* in visited, so that it is skipped.
C29_Terminates ==
    /\ []TerminationArgument
    /\ \A t \in 1..MaxInputs :
         (t \in DOMAIN tstate /\ tstate[t] = "running")
           ~> (t \in DOMAIN tstate /\ tstate[t] = "done")

\* C29 witness: a call whose firmware stage carved the whole file as the
\* kernel child (the child was skipped at guard 3) has returned.
C29_Witness ==
    \E t \in Tasks :
      /\ tstate[t] = "done"
      /\ cfg.inputs[t].file = TrxHdr(0, 832, 320, 512)
      /\ <<TrxHdr(0, 832, 320, 512), 0, 832>> \in hist.carved

\* C30: with an output directory configured and kernel extraction requested,
\* the kernelDone of every result extract() returns is true if and only if
\* <tag>.kernel exists in the output directory at the moment of the return,
\* and likewise rootfsDone and <tag>.tar.gz when rootfs extraction is
\* requested; a kernel written by a child shows in the parent's result.
C30_FlagsMatchFiles ==
    [][\A t \in Tasks :
         (/\ cfg.outdir
          /\ stack[t] # <<>>
          /\ Len(stack'[t]) = Len(stack[t])
          /\ Top(t).pc # "ret"
          /\ stack'[t][Len(stack[t])].pc = "ret") =>
            LET res == stack'[t][Len(stack[t])].res
            IN /\ cfg.kernel => (res.kernelDone <=> KernelPath(res.tag) \in outfiles')
               /\ cfg.rootfs => (res.rootfsDone <=> RootfsPath(res.tag) \in outfiles')]_vars

\* C31: within one run, once <tag>.kernel has been written by some item, no
\* item writes that path again, and likewise <tag>.tar.gz: no path is
\* written twice.
C31_WriteOnce ==
    \A i, j \in DOMAIN hist.writes :
      i # j => hist.writes[i].path # hist.writes[j].path

\* C32: the visited lock is held only for the membership test and the
\* insert: its holder is the one item that stands inside the with block, and
\* no item that runs a stage, waits for a child or has returned holds it; the
\* step that leaves the block frees the lock on both branches, skip and
\* insert; an item that waits for the lock never waits for itself or for an
\* item of its own call chain, so that it always gets the lock in the end.
C32_LockDiscipline ==
    /\ [](/\ lock \in {0} \cup Tasks
          /\ \A t \in Tasks : \A i \in 1..Len(stack[t]) :
               /\ stack[t][i].pc = "locked" <=> (lock = t /\ i = Len(stack[t]))
               /\ stack[t][i].pc \in {"black", "stage", "walk", "child", "trx2", "ret"} =>
                    ~(lock = t /\ i = Len(stack[t]))
          /\ \A t \in Tasks :
               (stack[t] # <<>> /\ Top(t).pc = "lock" /\ lock # 0) =>
                 /\ lock # t
                 /\ tstate[lock] = "running"
                 /\ Top(lock).pc = "locked")
    /\ [][\A t \in Tasks :
            (stack[t] # <<>> /\ Top(t).pc = "locked" /\ stack'[t] # stack[t]) =>
              /\ lock' = 0
              /\ Len(stack'[t]) = Len(stack[t])
              /\ IF Top(t).file \in ctx[Proc(t)].visited
                 THEN /\ stack'[t][Len(stack[t])].pc = "ret"
                      /\ ctx' = ctx
                 ELSE /\ stack'[t][Len(stack[t])].pc = "black"
                      /\ ctx'[Proc(t)].visited = ctx[Proc(t)].visited \cup {Top(t).file}]_vars
    /\ \A t \in 1..MaxInputs :
         (t \in DOMAIN stack /\ stack[t] # <<>> /\ Top(t).pc = "lock")
           ~> (t \in DOMAIN stack /\ stack[t] # <<>> /\ Top(t).pc = "locked")

\* C32 witness: with the pool, a child item holds the lock inside its
\* parent's cascade (the parent waits for the child and holds nothing) while
\* an item of another task waits for the lock.
C32_Witness ==
    \E t, u \in Tasks :
      /\ t # u
      /\ lock = t
      /\ Len(stack[t]) >= 2
      /\ Top(t).pc = "locked"
      /\ stack[t][Len(stack[t]) - 1].pc = "child"
      /\ stack[u] # <<>> /\ Top(u).pc = "lock"

====
